---- MODULE Spec2Model ----
(***************************************************************************)
(* Model of the MCP proxy service (src/services/mcp_service.py, main.py):  *)
(* the dispatch service, its request statistics, and the streaming         *)
(* reasoning/response classifier of MCPService.conversation_stream.        *)
(*                                                                         *)
(* Text is a sequence of characters.  The characters of the two markers    *)
(* are written in ASCII:  "si" "kao" "colon" spell the reasoning marker,   *)
(* "hui" "da" "colon" spell the answer marker; " " is whitespace.  A lone   *)
(* "si" is an ordinary character that also begins the reasoning marker.    *)
(***************************************************************************)
EXTENDS Integers, Sequences, FiniteSets, TLC

\* ------------------------------------------------------------------ bounds
MaxTokens == 3
MaxRequests == 2
MaxElapsed == 2
MaxTurns == 2
MaxMessages == 2
MaxChunks == 3
MaxPipelines == 2
MaxLines == 3
MaxEntries == 2

\* --------------------------------------------------------------- constants
THINK == <<"si", "kao", "colon">>
ANSWER == <<"hui", "da", "colon">>
EMPTY == <<>>
Inf == 1000000

\* ------------------------------------------------------- python str helpers
\* s[i:] for a 1-based i
Drop(s, i) == SubSeq(s, i, Len(s))

\* s[:n]
Take(s, n) == SubSeq(s, 1, n)

\* s.startswith(m) at position i
MatchAt(s, m, i) == i + Len(m) - 1 <= Len(s) /\ SubSeq(s, i, i + Len(m) - 1) = m

\* m in s
Contains(s, m) == \E i \in 1..(Len(s) + 1) : MatchAt(s, m, i)

\* s.find(m), 1-based; only used when m in s
Find(s, m) == CHOOSE i \in 1..(Len(s) + 1) :
                /\ MatchAt(s, m, i)
                /\ \A j \in 1..(i - 1) : ~MatchAt(s, m, j)

\* s.split(m, 1)[0] when m in s
Before(s, m) == Take(s, Find(s, m) - 1)

\* After with the marker cut out of the text and the text before it kept
AfterKeepingHead(s, m) == Take(s, Find(s, m) - 1) \o Drop(s, Find(s, m) + Len(m))

\* s.split(m, 1)[1] when m in s
After(s, m) == Drop(s, Find(s, m) + Len(m))

\* s.split(m): every part, left to right, occurrences not overlapping
RECURSIVE Split(_, _)
Split(s, m) == IF Contains(s, m)
                 THEN <<Before(s, m)>> \o Split(After(s, m), m)
                 ELSE <<s>>

IsSpace(c) == c \in {" ", "\n"}

\* s.lstrip()
RECURSIVE LStrip(_)
LStrip(s) == IF s # EMPTY /\ IsSpace(Head(s)) THEN LStrip(Tail(s)) ELSE s

\* s.rstrip()
RECURSIVE RStrip(_)
RStrip(s) == IF s # EMPTY /\ IsSpace(s[Len(s)]) THEN RStrip(Take(s, Len(s) - 1)) ELSE s

\* s.strip()
Strip(s) == RStrip(LStrip(s))

\* ---------------------------------------------------------------- inputs
\* a marker, an ordinary character (the first of the reasoning marker), whitespace
Tokens == {THINK, ANSWER, <<"si">>, <<" ">>}

RECURSIVE Flatten(_)
Flatten(ts) == IF ts = EMPTY THEN EMPTY ELSE Head(ts) \o Flatten(Tail(ts))

\* the complete model outputs a vendor may deliver
Texts == {Flatten(ts) : ts \in UNION {[1..n -> Tokens] : n \in 0..MaxTokens}}

ModelNames == {"dsr1", "vdsr1", "nope"}

\* a conversation message
Msg(role, content) == [role |-> role, content |-> content]

\* the content of the system message that asks for the two-marker format
SystemInstruction == <<"qing">> \o THINK \o ANSWER

\* the messages a request may carry
MessageAlphabet ==
  {Msg("user", <<"si">>), Msg("assistant", <<"da">>), Msg("system", <<"hui">>),
   Msg("system", SystemInstruction)}

\* the message lists of the requests
MessageLists == UNION {[1..n -> MessageAlphabet] : n \in 0..MaxMessages}

\* the message list of the requests whose messages do not matter
OneQuestion == {<<Msg("user", <<"si">>)>>}

\* the system message is prepended even when the list has one
InjectSystemAlwaysPrepend(messages) ==
  <<Msg("system", SystemInstruction)>> \o messages

\* the message list with the two-marker instruction: every system message gets
\* the instruction as its content, and a list without one gets it in front
InjectSystem(messages) ==
  LET has_system == \E i \in 1..Len(messages) : messages[i].role = "system"
  IN IF has_system
       THEN [i \in 1..Len(messages) |->
               IF messages[i].role = "system"
                 THEN Msg("system", SystemInstruction)
                 ELSE messages[i]]
       ELSE <<Msg("system", SystemInstruction)>> \o messages

\* the list DeepSeekModel.conversation hands to the vendor: injected by
\* conversation_with_reasoning, as given otherwise
ConversationMessages(messages, show) ==
  IF show THEN InjectSystem(messages) ELSE messages

Elapsed == 1..MaxElapsed

\* ------------------------------------------------------- streaming deltas
Delta(r, a) == [type |-> "delta", reasoning |-> r, response |-> a]

ErrorDelta == [type |-> "error", reasoning |-> EMPTY, response |-> EMPTY]

\* the message of the exception an error delta carries
ErrorText == <<"e">>

\* the code points of the characters outside ASCII, in hexadecimal
CodePoint ==
  [si |-> <<"6", "0", "1", "d">>, kao |-> <<"8", "0", "0", "3">>,
   colon |-> <<"f", "f", "1", "a">>, hui |-> <<"5", "6", "d", "e">>,
   da |-> <<"7", "b", "5", "4">>, wo |-> <<"6", "2", "1", "1">>,
   zai |-> <<"5", "7", "2", "8">>, xiang |-> <<"6", "0", "f", "3">>,
   period |-> <<"3", "0", "0", "2">>, qing |-> <<"8", "b", "f", "7">>]

\* JsonEscape with every character written as it is
JsonEscapeRaw(c) == <<c>>

\* one character inside a string of json.dumps (ensure_ascii is on)
JsonEscape(c) ==
  CASE c = "\n" -> <<"\\", "n">>
    [] c = "\"" -> <<"\\", "\"">>
    [] c = "\\" -> <<"\\", "\\">>
    [] c \in DOMAIN CodePoint -> <<"\\", "u">> \o CodePoint[c]
    [] OTHER -> <<c>>

\* a string of json.dumps
JsonString(text) ==
  <<"\"">> \o Flatten([i \in 1..Len(text) |-> JsonEscape(text[i])]) \o <<"\"">>

\* json.dumps(chunk) of a delta or of an error delta; the keys and the
\* separators are one element each
JsonDumps(d) ==
  IF d.type = "error"
    THEN <<"{", "\"error\"", ": ">> \o JsonString(ErrorText) \o <<"}">>
    ELSE <<"{", "\"reasoning\"", ": ">> \o JsonString(d.reasoning)
           \o <<", ", "\"response\"", ": ">> \o JsonString(d.response) \o <<"}">>

\* the data line of the SSE record of a delta
DataLine(d) == <<"data: ">> \o JsonDumps(d)

\* FrameOf without the blank line behind the data line
FrameUnterminated(d) == <<"data: ">> \o JsonDumps(d) \o <<"\n">>

\* the string stream_generator yields for one chunk
FrameOf(d) == <<"data: ">> \o JsonDumps(d) \o <<"\n", "\n">>

\* the strings stream_generator yields for the chunks ds
Frames(ds) == [i \in 1..Len(ds) |-> FrameOf(ds[i])]

\* state dict of conversation_stream at construction
InitState == [phase |-> "init", reasoning |-> EMPTY, response |-> EMPTY]

\* ------------------------------------------- conversation_stream classifier
\* StepInit with the text after the marker emitted but not stored in the state
StepInitNoStore(full, state, show) ==
  IF Contains(full, THINK)
    THEN [state |-> [state EXCEPT !.phase = "reasoning"],
          emit  |-> IF show THEN <<Delta(After(full, THINK), EMPTY)>> ELSE <<>>]
    ELSE [state |-> state, emit |-> <<>>]

\* phase "init": detect the reasoning marker in the accumulated text
StepInit(full, state, show) ==
  IF Contains(full, THINK)
    THEN [state |-> [state EXCEPT !.phase = "reasoning",
                                  !.reasoning = After(full, THINK)],
          emit  |-> IF show THEN <<Delta(After(full, THINK), EMPTY)>> ELSE <<>>]
    ELSE [state |-> state, emit |-> <<>>]

\* StepReasoning with the transition delta carrying the reasoning even when
\* show_reasoning is off
StepReasoningLeak(full, state, show) ==
  IF Contains(full, ANSWER)
    THEN LET parts0 == Before(full, ANSWER)
             reasoning_part == IF Contains(parts0, THINK) THEN After(parts0, THINK) ELSE EMPTY
             response_text == After(full, ANSWER)
         IN [state |-> [phase |-> "response",
                        reasoning |-> reasoning_part,
                        response |-> response_text],
             emit  |-> <<Delta(reasoning_part, response_text)>>]
    ELSE LET new_reasoning == After(full, THINK)
         IN IF new_reasoning # state.reasoning /\ show
              THEN [state |-> [state EXCEPT !.reasoning = new_reasoning],
                    emit  |-> <<Delta(new_reasoning, EMPTY)>>]
              ELSE [state |-> state, emit |-> <<>>]

\* phase "reasoning": detect the answer marker, else refresh the reasoning
StepReasoning(full, state, show) ==
  IF Contains(full, ANSWER)
    THEN LET parts0 == Before(full, ANSWER)
             reasoning_part == IF Contains(parts0, THINK) THEN After(parts0, THINK) ELSE EMPTY
             response_text == After(full, ANSWER)
         IN [state |-> [phase |-> "response",
                        reasoning |-> reasoning_part,
                        response |-> response_text],
             emit  |-> <<Delta(IF show THEN reasoning_part ELSE EMPTY, response_text)>>]
    ELSE LET new_reasoning == After(full, THINK)
         IN IF new_reasoning # state.reasoning /\ show
              THEN [state |-> [state EXCEPT !.reasoning = new_reasoning],
                    emit  |-> <<Delta(new_reasoning, EMPTY)>>]
              ELSE [state |-> state, emit |-> <<>>]

\* StepResponse with the response taken after the last answer marker
StepResponseLastMarker(full, state, show) ==
  LET parts == Split(full, ANSWER)
  IN IF Contains(full, ANSWER) /\ parts[Len(parts)] # state.response
       THEN [state |-> [state EXCEPT !.response = parts[Len(parts)]],
             emit  |-> <<Delta(IF show THEN state.reasoning ELSE EMPTY, parts[Len(parts)])>>]
       ELSE [state |-> state, emit |-> <<>>]

\* phase "response": refresh the response
StepResponse(full, state, show) ==
  IF Contains(full, ANSWER) /\ After(full, ANSWER) # state.response
    THEN [state |-> [state EXCEPT !.response = After(full, ANSWER)],
          emit  |-> <<Delta(IF show THEN state.reasoning ELSE EMPTY, After(full, ANSWER))>>]
    ELSE [state |-> state, emit |-> <<>>]

\* Classify with the phases tested one after the other (if, if, if): a chunk
\* that leaves phase init is classified again in phase reasoning
ClassifyFallThrough(full, state, show) ==
  IF state.phase = "init" /\ StepInit(full, state, show).state.phase = "reasoning"
    THEN LET first  == StepInit(full, state, show)
             second == StepReasoning(full, first.state, show)
         IN [state |-> second.state, emit |-> first.emit \o second.emit]
    ELSE CASE state.phase = "init"      -> StepInit(full, state, show)
           [] state.phase = "reasoning" -> StepReasoning(full, state, show)
           [] state.phase = "response"  -> StepResponse(full, state, show)

\* the state machine applied to the accumulated text after one non-empty chunk
Classify(full, state, show) ==
  CASE state.phase = "init"      -> StepInit(full, state, show)
    [] state.phase = "reasoning" -> StepReasoning(full, state, show)
    [] state.phase = "response"  -> StepResponse(full, state, show)

\* FinalDeltas with phase "init" yielding the state's response, not the text
FinalDeltasStale(full, state, show) ==
  CASE state.phase = "init" ->
         <<Delta(EMPTY, state.response)>>
    [] state.phase = "reasoning" ->
         <<Delta(IF show THEN state.reasoning ELSE EMPTY, state.reasoning)>>
    [] state.phase = "response" ->
         <<Delta(IF show THEN state.reasoning ELSE EMPTY, state.response)>>

\* the final emission after the vendor stream ended
FinalDeltas(full, state, show) ==
  CASE state.phase = "init" ->
         <<Delta(EMPTY, full)>>
    [] state.phase = "reasoning" ->
         <<Delta(IF show THEN state.reasoning ELSE EMPTY, state.reasoning)>>
    [] state.phase = "response" ->
         IF Contains(full, ANSWER)
           THEN LET final_response == After(full, ANSWER)
                    final_reasoning == IF Contains(full, THINK)
                                         THEN (IF Contains(After(full, THINK), ANSWER)
                                                 THEN Before(After(full, THINK), ANSWER)
                                                 ELSE After(full, THINK))
                                         ELSE EMPTY
                IN <<Delta(IF show THEN final_reasoning ELSE EMPTY, final_response)>>
           ELSE <<>>

\* ------------------------------------------------------ request statistics
Min(a, b) == IF a <= b THEN a ELSE b

Max(a, b) == IF a >= b THEN a ELSE b

InitStats == [total_requests |-> 0, total_time |-> 0, min_time |-> Inf, max_time |-> 0]

UpdateStats(stats, elapsed) ==
  [total_requests |-> stats.total_requests + 1,
   total_time     |-> stats.total_time + elapsed,
   min_time       |-> Min(stats.min_time, elapsed),
   max_time       |-> Max(stats.max_time, elapsed)]

\* ------------------------------------------------------------------- state
VARIABLES
  models,          \* MCPService.models: registered name -> adapter class
  request_stats,   \* MCPService.request_stats
  pc,              \* position of the request being served: idle, streaming, done
  op,              \* the operation of the request
  model_name,      \* its model_name argument
  show_reasoning,  \* its show_reasoning argument
  vendor,          \* text the vendor has not delivered yet
  stream_status,   \* the adapter's fragment stream: none, open, ended, raised
  fragments,       \* the non-empty fragments the adapter has yielded so far
  full_response,   \* conversation_stream's accumulated text
  state,           \* conversation_stream's state dict
  out,             \* the deltas conversation_stream has yielded
  sse,             \* the strings stream_generator of the endpoint has yielded
  adapter_calls,   \* adapter methods the service has invoked for this request
  result,          \* what the endpoint handed to the transport
  served,          \* requests received so far
  request_messages,  \* the messages argument of the request
  vendor_calls,    \* the message lists handed to the vendor by the request's conversation calls
  pipelines,       \* the requests one service serves concurrently, each with the locals of its coroutine
  completion,      \* the vendor completion handed to a VolcEngineModel call
  adapter_op,      \* the VolcEngineModel method called: none, generate, conversation
  adapter_return,  \* what that call returned or raised
  adapter_class,   \* the adapter class whose conversation_stream runs
  vendor_chunks,   \* the chunks the vendor's completion stream has yet to deliver
  consumed,        \* the chunks the adapter's loop has taken from the vendor's stream
  yielded,         \* the fragments the adapter's conversation_stream has yielded
  conversation_history,  \* MCPClient.conversation_history
  client_pc,       \* position of the client call: idle, streaming, completed, failed, abandoned
  client_api,      \* the MCPClient method of the current turn
  wire,            \* lines of the SSE response the client has not read yet
  lines_read,      \* lines of the response the client's loop has taken
  posts,           \* HTTP requests the current client call has sent
  posted,          \* the messages field of the request the client sent last
  final_response,  \* local final_response of the client's conversation_stream
  observed,        \* the chunk_data values the client generator has yielded
  stream_events,   \* every value the generator has yielded, status events included
  turn_base,       \* conversation_history when the current turn began
  turns,           \* client turns begun so far
  config,          \* the entries of config/config.yaml, in the order of the file
  environ,         \* the environment variables that are set
  startup_pc       \* main.startup_event: loading, started, or failed (it raised)

service_vars == <<models, request_stats, pc, op, model_name, show_reasoning, vendor,
                  stream_status, fragments, full_response, state, out, sse,
                  adapter_calls, result, served, request_messages, vendor_calls,
                  pipelines>>

message_vars == <<request_messages, vendor_calls>>

adapter_stream_vars == <<adapter_class, vendor_chunks, consumed, yielded>>

adapter_vars == <<completion, adapter_op, adapter_return, adapter_stream_vars>>

client_vars == <<conversation_history, client_pc, client_api, wire, lines_read, posts, posted,
                 final_response, observed, stream_events, turn_base, turns>>

startup_vars == <<config, environ, startup_pc>>

vars == <<service_vars, adapter_vars, client_vars, startup_vars>>

stream_vars == <<vendor, stream_status, fragments, full_response, state, out, sse>>

\* the concurrent requests
Pipelines == 1..MaxPipelines

\* a request that has not arrived yet
IdlePipeline ==
  [pc |-> "idle", op |-> "none", show_reasoning |-> FALSE, pending |-> <<>>,
   fragments |-> <<>>, full_response |-> EMPTY, state |-> InitState, out |-> <<>>,
   stream_status |-> "none", elapsed |-> 0]

\* one entry of the configuration: its short name and whether it has an api_key
Entry(name, api_key) == [name |-> name, api_key |-> api_key]

\* the registry after main.startup_event with one model of each vendor family
Registry == [n \in {"dsr1", "vdsr1"} |->
               IF n = "dsr1" THEN "DeepSeekModel" ELSE "VolcEngineModel"]

NoResult == [kind |-> "none", error |-> "none", response |-> EMPTY,
             reasoning |-> EMPTY, has_reasoning |-> FALSE]

\* a JSON body {"response": ...} or {"response": ..., "reasoning": ...}
JsonResult(response, reasoning, has_reasoning) ==
  [kind |-> "json", error |-> "none", response |-> response,
   reasoning |-> reasoning, has_reasoning |-> has_reasoning]

\* the exception left the endpoint function: no payload was built
Uncaught(e) == [kind |-> "exception", error |-> e, response |-> EMPTY,
                reasoning |-> EMPTY, has_reasoning |-> FALSE]

\* a text/event-stream response was opened
SseResult == [kind |-> "sse", error |-> "none", response |-> EMPTY,
              reasoning |-> EMPTY, has_reasoning |-> FALSE]

\* no vendor completion yet
NoCompletion == [failed |-> FALSE, choices |-> <<>>]

\* no adapter call yet
NoReturn == [kind |-> "none", value |-> EMPTY]

Init ==
  /\ models = Registry
  /\ config = <<Entry("dsr1", TRUE), Entry("vdsr1", TRUE)>>
  /\ environ = {}
  /\ startup_pc = "started"
  /\ request_stats = InitStats
  /\ pc = "idle"
  /\ op = "none"
  /\ model_name = "none"
  /\ show_reasoning = FALSE
  /\ vendor = EMPTY
  /\ stream_status = "none"
  /\ fragments = <<>>
  /\ full_response = EMPTY
  /\ state = InitState
  /\ out = <<>>
  /\ sse = <<>>
  /\ adapter_calls = 0
  /\ result = NoResult
  /\ served = 0
  /\ request_messages = <<>>
  /\ vendor_calls = <<>>
  /\ pipelines = [p \in Pipelines |-> IdlePipeline]
  /\ adapter_class = "none"
  /\ vendor_chunks = <<>>
  /\ consumed = <<>>
  /\ yielded = <<>>
  /\ completion = NoCompletion
  /\ adapter_op = "none"
  /\ adapter_return = NoReturn
  /\ conversation_history = <<>>
  /\ client_pc = "idle"
  /\ client_api = "none"
  /\ wire = <<>>
  /\ lines_read = <<>>
  /\ posts = 0
  /\ posted = <<>>
  /\ final_response = EMPTY
  /\ observed = <<>>
  /\ stream_events = <<>>
  /\ turn_base = <<>>
  /\ turns = 0

\* -------------------------------------------------------- adapter results
\* DeepSeekModel.conversation_with_reasoning on the complete vendor output
WithReasoning(full) ==
  IF Contains(full, THINK) /\ Contains(full, ANSWER)
    THEN LET parts == Split(full, ANSWER)
         IN [response  |-> Strip(parts[2]),
             reasoning |-> IF Contains(parts[1], THINK)
                             THEN Strip(Split(parts[1], THINK)[2])
                             ELSE EMPTY]
    ELSE [response |-> full, reasoning |-> EMPTY]

\* ---------------------------------------------------------------- actions
\* Generate with the timed section started before the registry lookup
GenerateTimedLookup(m, text, ok, elapsed) ==
  /\ pc = "idle"
  /\ UNCHANGED <<pipelines, adapter_vars, client_vars, startup_vars, message_vars>>
  /\ op' = "generate"
  /\ model_name' = m
  /\ pc' = "done"
  /\ served' = served + 1
  /\ request_stats' = UpdateStats(request_stats, elapsed)
  /\ IF m \notin DOMAIN models
       THEN /\ result' = Uncaught("ValueError")
            /\ UNCHANGED adapter_calls
       ELSE /\ adapter_calls' = adapter_calls + 1
            /\ result' = IF ok THEN JsonResult(text, EMPTY, FALSE) ELSE Uncaught("Exception")
  /\ UNCHANGED <<models, show_reasoning, stream_vars>>

\* POST /generate/{model_name}: main.generate and MCPService.generate
Generate(m, text, ok, elapsed) ==
  /\ pc = "idle"
  /\ UNCHANGED <<pipelines, adapter_vars, client_vars, startup_vars, message_vars>>
  /\ op' = "generate"
  /\ model_name' = m
  /\ pc' = "done"
  /\ served' = served + 1
  /\ IF m \notin DOMAIN models
       THEN /\ result' = Uncaught("ValueError")
            /\ UNCHANGED <<request_stats, adapter_calls>>
       ELSE /\ adapter_calls' = adapter_calls + 1
            /\ IF ok
                 THEN /\ result' = JsonResult(text, EMPTY, FALSE)
                      /\ request_stats' = UpdateStats(request_stats, elapsed)
                 ELSE /\ result' = Uncaught("Exception")
                      /\ UNCHANGED request_stats
  /\ UNCHANGED <<models, show_reasoning, stream_vars>>

\* POST /generate_all: main.generate_all and MCPService.generate_all.  The
\* adapters are called in registration order; raising is the position of the
\* first one that raises (0: none), and every adapter returns the same text.
GenerateAll(text, raising, elapsed) ==
  /\ pc = "idle"
  /\ UNCHANGED <<pipelines, adapter_vars, client_vars, startup_vars, message_vars>>
  /\ op' = "generate_all"
  /\ model_name' = "none"
  /\ pc' = "done"
  /\ served' = served + 1
  /\ IF raising = 0
       THEN /\ adapter_calls' = adapter_calls + Cardinality(DOMAIN models)
            /\ result' = JsonResult(text, EMPTY, FALSE)
            /\ request_stats' = UpdateStats(request_stats, elapsed)
       ELSE /\ adapter_calls' = adapter_calls + raising
            /\ result' = Uncaught("Exception")
            /\ UNCHANGED request_stats
  /\ UNCHANGED <<models, show_reasoning, stream_vars>>

\* what MCPService.conversation returns for a DeepSeekModel that completed
\* with the vendor output text
ConversationReturn(text, show) ==
  IF show
    THEN JsonResult(WithReasoning(text).response, WithReasoning(text).reasoning, TRUE)
    ELSE JsonResult(text, EMPTY, FALSE)

\* POST /conversation: main.conversation and MCPService.conversation
Conversation(m, show, text, ok, elapsed, messages) ==
  /\ pc = "idle"
  /\ UNCHANGED <<pipelines, adapter_vars, client_vars, startup_vars>>
  /\ op' = "conversation"
  /\ model_name' = m
  /\ show_reasoning' = show
  /\ pc' = "done"
  /\ served' = served + 1
  /\ request_messages' = messages
  /\ IF m \notin DOMAIN models
       THEN /\ result' = Uncaught("ValueError")
            /\ UNCHANGED <<request_stats, adapter_calls, vendor_calls>>
       ELSE /\ adapter_calls' = adapter_calls + 1
            /\ IF models[m] = "VolcEngineModel"
                 THEN \* conversation(self, messages) is called with two arguments
                      /\ result' = Uncaught("TypeError")
                      /\ UNCHANGED <<request_stats, vendor_calls>>
                 ELSE /\ vendor_calls' = <<ConversationMessages(messages, show)>>
                      /\ IF ok
                           THEN /\ result' = ConversationReturn(text, show)
                                /\ request_stats' = UpdateStats(request_stats, elapsed)
                           ELSE /\ result' = Uncaught("Exception")
                                /\ UNCHANGED request_stats
  /\ UNCHANGED <<models, stream_vars>>

\* POST /conversation_stream: main.conversation_stream up to the first fragment
StreamOpen(m, show, text, messages) ==
  /\ pc = "idle"
  /\ UNCHANGED <<pipelines, adapter_vars, client_vars, startup_vars>>
  /\ op' = "conversation_stream"
  /\ model_name' = m
  /\ show_reasoning' = show
  /\ served' = served + 1
  /\ request_messages' = messages
  /\ IF m \notin DOMAIN models
       THEN /\ pc' = "done"
            /\ result' = Uncaught("ValueError")
            /\ UNCHANGED <<adapter_calls, stream_vars, vendor_calls>>
       ELSE /\ pc' = "streaming"
            \* both adapters pass the list they are given on to the vendor
            /\ vendor_calls' = <<InjectSystem(messages)>>
            /\ result' = SseResult
            /\ adapter_calls' = adapter_calls + 1
            /\ vendor' = text
            /\ stream_status' = "open"
            /\ fragments' = <<>>
            /\ full_response' = EMPTY
            /\ state' = InitState
            /\ out' = <<>>
            /\ sse' = <<>>
  /\ UNCHANGED <<models, request_stats>>

\* the fragments the adapter can yield next: a piece of the vendor's text, or
\* (DeepSeekModel only, which forwards them) an empty string
NextChunks ==
  {Take(vendor, n) : n \in 1..Len(vendor)}
    \cup (IF model_name \in DOMAIN models /\ models[model_name] = "DeepSeekModel"
            THEN {EMPTY} ELSE {})

\* one iteration of the async for loop of conversation_stream
NextFragment(chunk) ==
  /\ pc = "streaming"
  /\ UNCHANGED <<pipelines, adapter_vars, client_vars, startup_vars, message_vars>>
  /\ chunk \in NextChunks
  /\ vendor' = Drop(vendor, Len(chunk) + 1)
  /\ IF chunk = EMPTY
       THEN UNCHANGED <<fragments, full_response, state, out, sse>>
       ELSE LET step == Classify(full_response \o chunk, state, show_reasoning)
            IN /\ fragments' = Append(fragments, chunk)
               /\ full_response' = full_response \o chunk
               /\ state' = step.state
               /\ out' = out \o step.emit
               /\ sse' = sse \o Frames(step.emit)
  /\ UNCHANGED <<models, request_stats, pc, op, model_name, show_reasoning,
                 stream_status, adapter_calls, result, served>>

\* StreamEnd without the final emission
StreamEndSilent(elapsed) ==
  /\ pc = "streaming"
  /\ UNCHANGED <<pipelines, adapter_vars, client_vars, startup_vars, message_vars>>
  /\ vendor = EMPTY
  /\ stream_status' = "ended"
  /\ out' = out
  /\ sse' = sse
  /\ request_stats' = UpdateStats(request_stats, elapsed)
  /\ pc' = "done"
  /\ UNCHANGED <<models, op, model_name, show_reasoning, vendor, fragments,
                 full_response, state, adapter_calls, result, served>>

\* the vendor stream ended: final emission, then the statistics
StreamEnd(elapsed) ==
  /\ pc = "streaming"
  /\ UNCHANGED <<pipelines, adapter_vars, client_vars, startup_vars, message_vars>>
  /\ vendor = EMPTY
  /\ stream_status' = "ended"
  /\ out' = out \o FinalDeltas(full_response, state, show_reasoning)
  /\ sse' = sse \o Frames(FinalDeltas(full_response, state, show_reasoning))
  /\ request_stats' = UpdateStats(request_stats, elapsed)
  /\ pc' = "done"
  /\ UNCHANGED <<models, op, model_name, show_reasoning, vendor, fragments,
                 full_response, state, adapter_calls, result, served>>

\* StreamRaise with the final emission placed after the except clause
StreamRaiseThenFinal(elapsed) ==
  /\ pc = "streaming"
  /\ UNCHANGED <<pipelines, adapter_vars, client_vars, startup_vars, message_vars>>
  /\ stream_status' = "raised"
  /\ out' = Append(out, ErrorDelta) \o FinalDeltas(full_response, state, show_reasoning)
  /\ sse' = sse \o Frames(Append(<<>>, ErrorDelta) \o FinalDeltas(full_response, state, show_reasoning))
  /\ request_stats' = UpdateStats(request_stats, elapsed)
  /\ pc' = "done"
  /\ UNCHANGED <<models, op, model_name, show_reasoning, vendor, fragments,
                 full_response, state, adapter_calls, result, served>>

\* the adapter raised while the next fragment was awaited
StreamRaise(elapsed) ==
  /\ pc = "streaming"
  /\ UNCHANGED <<pipelines, adapter_vars, client_vars, startup_vars, message_vars>>
  /\ stream_status' = "raised"
  /\ out' = Append(out, ErrorDelta)
  /\ sse' = Append(sse, FrameOf(ErrorDelta))
  /\ request_stats' = UpdateStats(request_stats, elapsed)
  /\ pc' = "done"
  /\ UNCHANGED <<models, op, model_name, show_reasoning, vendor, fragments,
                 full_response, state, adapter_calls, result, served>>

\* the service takes the next request
NextRequest ==
  /\ pc = "done"
  /\ UNCHANGED <<pipelines, adapter_vars, client_vars, startup_vars>>
  /\ served < MaxRequests
  /\ pc' = "idle"
  /\ op' = "none"
  /\ model_name' = "none"
  /\ show_reasoning' = FALSE
  /\ vendor' = EMPTY
  /\ stream_status' = "none"
  /\ fragments' = <<>>
  /\ full_response' = EMPTY
  /\ state' = InitState
  /\ out' = <<>>
  /\ sse' = <<>>
  /\ adapter_calls' = 0
  /\ result' = NoResult
  /\ request_messages' = <<>>
  /\ vendor_calls' = <<>>
  /\ UNCHANGED <<models, request_stats, served>>

\* the requests of one service, each with a complete vendor output from T and
\* a message list from M
Requests(T, M) ==
  \/ /\ pc = "idle"
     /\ \E m \in ModelNames, text \in T, ok \in BOOLEAN, e \in Elapsed :
          Generate(m, text, ok, e)
  \/ /\ pc = "idle"
     /\ \E text \in T, raising \in 0..Cardinality(DOMAIN models), e \in Elapsed :
          GenerateAll(text, raising, e)
  \/ /\ pc = "idle"
     /\ \E m \in ModelNames, show \in BOOLEAN, text \in T, ok \in BOOLEAN, e \in Elapsed,
           messages \in M :
          Conversation(m, show, text, ok, e, messages)
  \/ /\ pc = "idle"
     /\ \E m \in ModelNames, show \in BOOLEAN, text \in T, messages \in M :
          StreamOpen(m, show, text, messages)
  \/ \E chunk \in NextChunks : NextFragment(chunk)
  \/ \E e \in Elapsed : StreamEnd(e)
  \/ \E e \in Elapsed : StreamRaise(e)

\* the first request of a service, over every vendor output
Next == Requests(Texts, OneQuestion)

Spec == Init /\ [][Next]_vars

\* vendor outputs of the request sequences
ServiceTexts == {<<"si">>, THINK \o <<"si">> \o ANSWER \o <<"si">>}

\* a sequence of requests served one after the other
NextService == Requests(ServiceTexts, OneQuestion) \/ NextRequest

SpecService == Init /\ [][NextService]_vars

\* the steps of the stream in progress: the vendor delivers a finite stream, so
\* the loop of conversation_stream is resumed until the stream ends or raises
StreamStep ==
  \/ \E chunk \in NextChunks : NextFragment(chunk)
  \/ \E e \in Elapsed : StreamEnd(e)
  \/ \E e \in Elapsed : StreamRaise(e)

SpecServiceFair == SpecService /\ WF_vars(StreamStep)

\* the worked scenario: a reasoning marker, three characters, a full stop, an
\* answer marker, two digits
ScenarioFragments ==
  <<THINK, <<"wo", "zai", "xiang">>, <<"period">>, ANSWER, <<"4", "2">>>>

\* the first request of a service whose vendor outputs the scenario's text
NextScenario == Requests({Flatten(ScenarioFragments)}, OneQuestion)

SpecScenario == Init /\ [][NextScenario]_vars

\* vendor outputs with line breaks, quotes and backslashes
TransportTexts ==
  {THINK \o <<"\n", "\n">> \o ANSWER \o <<"\"", "\\">>,
   <<"\n", "\n", "si">>}

\* the first request of a service, over the vendor outputs with line breaks
NextTransport == Requests(TransportTexts, OneQuestion)

SpecTransport == Init /\ [][NextTransport]_vars

\* the first request of a service, over every message list
NextMessages == Requests({<<"si">>}, MessageLists)

SpecMessages == Init /\ [][NextMessages]_vars

\* ------------------------------------------------------ concurrent requests
\* the coroutines of the requests run on one event loop: a coroutine keeps the
\* loop from an await (or a yield of its async generator) to the next one, so
\* each action below is the code between two such points

\* the fragment streams of the concurrent requests
ConcurrentStreams ==
  {<<THINK \o <<"si">>, ANSWER \o <<"si">>>>,
   <<<<"si">>, THINK \o <<" ">>, ANSWER>>}

ConcurrentOps == {"conversation_stream", "conversation"}

\* everything but the pipelines and the statistics they share
single_request_vars ==
  <<models, pc, op, model_name, show_reasoning, stream_vars, adapter_calls, result,
    served, message_vars, adapter_vars, client_vars, startup_vars>>

\* a request arrives and runs up to its first await of the adapter
ConcurrentOpen(p, o, show, fs) ==
  /\ pipelines[p].pc = "idle"
  /\ pipelines' = [pipelines EXCEPT ![p] =
       [IdlePipeline EXCEPT
          !.pc = IF o = "conversation_stream" THEN "streaming" ELSE "awaiting",
          !.op = o,
          !.show_reasoning = show,
          !.pending = IF o = "conversation_stream" THEN fs ELSE <<>>,
          !.stream_status = IF o = "conversation_stream" THEN "open" ELSE "none"]]
  /\ UNCHANGED <<request_stats, single_request_vars>>

\* Consume with an empty fragment answered by a delta of the current state
ConsumeHeartbeat(me, chunk) ==
  IF chunk = EMPTY
    THEN [me EXCEPT !.pending = Tail(me.pending),
                    !.fragments = Append(me.fragments, chunk),
                    !.out = Append(me.out, Delta(me.state.reasoning, me.state.response))]
    ELSE LET step == Classify(me.full_response \o chunk, me.state, me.show_reasoning)
         IN [me EXCEPT !.pending = Tail(me.pending),
                       !.fragments = Append(me.fragments, chunk),
                       !.full_response = me.full_response \o chunk,
                       !.state = step.state,
                       !.out = me.out \o step.emit]

\* the body of the async for loop for one fragment of a request: an empty
\* fragment is skipped, any other is accumulated and classified
Consume(me, chunk) ==
  IF chunk = EMPTY
    THEN [me EXCEPT !.pending = Tail(me.pending),
                    !.fragments = Append(me.fragments, chunk)]
    ELSE LET step == Classify(me.full_response \o chunk, me.state, me.show_reasoning)
         IN [me EXCEPT !.pending = Tail(me.pending),
                       !.fragments = Append(me.fragments, chunk),
                       !.full_response = me.full_response \o chunk,
                       !.state = step.state,
                       !.out = me.out \o step.emit]

\* ConcurrentFragment with a classifier state that the requests share
ConcurrentFragmentShared(p) ==
  /\ pipelines[p].pc = "streaming"
  /\ pipelines[p].pending # <<>>
  /\ LET me    == pipelines[p]
         chunk == Head(me.pending)
         step  == Classify(me.full_response \o chunk, pipelines[1].state, me.show_reasoning)
     IN pipelines' = [q \in Pipelines |->
          IF q = p
            THEN [me EXCEPT !.pending = Tail(me.pending),
                            !.fragments = Append(me.fragments, chunk),
                            !.full_response = me.full_response \o chunk,
                            !.state = step.state,
                            !.out = me.out \o step.emit]
            ELSE IF q = 1 THEN [pipelines[q] EXCEPT !.state = step.state]
            ELSE pipelines[q]]
  /\ UNCHANGED <<request_stats, single_request_vars>>

\* one iteration of the request's async for loop, on the request's own
\* full_response and state
ConcurrentFragment(p) ==
  /\ pipelines[p].pc = "streaming"
  /\ pipelines[p].pending # <<>>
  /\ pipelines' = [pipelines EXCEPT ![p] = Consume(pipelines[p], Head(pipelines[p].pending))]
  /\ UNCHANGED <<request_stats, single_request_vars>>

\* the request's vendor stream ends: the final emission
ConcurrentEnd(p) ==
  /\ pipelines[p].pc = "streaming"
  /\ pipelines[p].pending = <<>>
  /\ LET me == pipelines[p]
     IN pipelines' = [pipelines EXCEPT ![p] =
          [me EXCEPT !.pc = "closing",
                     !.stream_status = "ended",
                     !.out = me.out \o FinalDeltas(me.full_response, me.state, me.show_reasoning)]]
  /\ UNCHANGED <<request_stats, single_request_vars>>

\* the request's adapter raises while the next fragment is awaited
ConcurrentRaise(p) ==
  /\ pipelines[p].pc = "streaming"
  /\ LET me == pipelines[p]
     IN pipelines' = [pipelines EXCEPT ![p] =
          [me EXCEPT !.pc = "closing",
                     !.stream_status = "raised",
                     !.out = Append(me.out, ErrorDelta)]]
  /\ UNCHANGED <<request_stats, single_request_vars>>

\* the awaited adapter call of a conversation request raises: the exception
\* leaves MCPService.conversation before the statistics
ConcurrentFail(p) ==
  /\ pipelines[p].pc = "awaiting"
  /\ pipelines' = [pipelines EXCEPT ![p].pc = "failed"]
  /\ UNCHANGED <<request_stats, single_request_vars>>

\* ConcurrentUpdate from the statistics as the request saw them when it arrived
\* first, not as they are
ConcurrentUpdateStale(p, elapsed) ==
  /\ pipelines[p].pc \in {"awaiting", "closing"}
  /\ request_stats' = UpdateStats(InitStats, elapsed)
  /\ pipelines' = [pipelines EXCEPT ![p].pc = "done", ![p].elapsed = elapsed]
  /\ UNCHANGED single_request_vars

\* the request resumes behind its last await and calls _update_stats, which
\* reads and writes request_stats without an await in between
ConcurrentUpdate(p, elapsed) ==
  /\ pipelines[p].pc \in {"awaiting", "closing"}
  /\ request_stats' = UpdateStats(request_stats, elapsed)
  /\ pipelines' = [pipelines EXCEPT ![p].pc = "done", ![p].elapsed = elapsed]
  /\ UNCHANGED single_request_vars

NextConcurrent ==
  \/ \E p \in Pipelines, o \in ConcurrentOps, show \in BOOLEAN, fs \in ConcurrentStreams :
       ConcurrentOpen(p, o, show, fs)
  \/ \E p \in Pipelines : ConcurrentFragment(p)
  \/ \E p \in Pipelines : ConcurrentEnd(p)
  \/ \E p \in Pipelines : ConcurrentRaise(p)
  \/ \E p \in Pipelines : ConcurrentFail(p)
  \/ \E p \in Pipelines, e \in Elapsed : ConcurrentUpdate(p, e)

\* the requests of one service in every interleaving
SpecConcurrent == Init /\ [][NextConcurrent]_vars

\* the fragments of the streams with empty strings among them: the markers,
\* a reasoning marker cut in two, an ordinary character, the empty string
FragmentAlphabet == {EMPTY, THINK, ANSWER, <<"si">>, <<"si", "kao">>, <<"colon">>}

EmptyStreams == UNION {[1..n -> FragmentAlphabet] : n \in 0..MaxChunks}

\* one streaming request over a vendor stream that may hold empty fragments
NextEmpties ==
  \/ \E show \in BOOLEAN, fs \in EmptyStreams :
       ConcurrentOpen(1, "conversation_stream", show, fs)
  \/ ConcurrentFragment(1)
  \/ ConcurrentEnd(1)
  \/ \E e \in Elapsed : ConcurrentUpdate(1, e)

SpecEmpties == Init /\ [][NextEmpties]_vars

\* ---------------------------------------------------------- VolcEngineModel
\* what chat.completions.create may hand back: a failure, or a completion
\* with zero, one or two choices, each choice holding its message's content
Completions ==
  {[failed |-> TRUE, choices |-> <<>>]} \cup
  {[failed |-> FALSE, choices |-> cs] :
     cs \in {<<>>} \cup {<<t>> : t \in Texts} \cup {<<t, u>> : t \in Texts, u \in Tokens}}

Returned(v) == [kind |-> "return", value |-> v]

Raised == [kind |-> "raise", value |-> EMPTY]

\* VolcFirstChoice with the content stripped, as conversation_with_reasoning does
VolcFirstChoiceStripped(c) ==
  IF c.failed \/ c.choices = <<>>
    THEN Raised
    ELSE Returned(Strip(c.choices[1]))

\* completion.choices[0].message.content inside the try of generate and of
\* conversation; any exception is wrapped and raised again
VolcFirstChoice(c) ==
  IF c.failed \/ c.choices = <<>>
    THEN Raised
    ELSE Returned(c.choices[1])

\* VolcEngineModel.generate(prompt)
VolcGenerate(c) ==
  /\ adapter_op = "none"
  /\ adapter_op' = "generate"
  /\ completion' = c
  /\ adapter_return' = VolcFirstChoice(c)
  /\ UNCHANGED <<service_vars, client_vars, startup_vars, adapter_stream_vars>>

\* VolcEngineModel.conversation(messages)
VolcConversation(c) ==
  /\ adapter_op = "none"
  /\ adapter_op' = "conversation"
  /\ completion' = c
  /\ adapter_return' = VolcFirstChoice(c)
  /\ UNCHANGED <<service_vars, client_vars, startup_vars, adapter_stream_vars>>

NextAdapter ==
  \/ \E c \in Completions : VolcGenerate(c)
  \/ \E c \in Completions : VolcConversation(c)

\* one call of a VolcEngineModel method, over every vendor completion
SpecAdapter == Init /\ [][NextAdapter]_vars

\* ------------------------------------------------------ adapters' streams
\* a chunk of the vendor's completion stream: whether it has choices, whether
\* the content of the first choice's delta is None, and that content
VendorChunk(has_choices, is_null, content) ==
  [has_choices |-> has_choices, is_null |-> is_null, content |-> content]

VendorChunks ==
  {VendorChunk(FALSE, TRUE, EMPTY), VendorChunk(TRUE, TRUE, EMPTY),
   VendorChunk(TRUE, FALSE, EMPTY), VendorChunk(TRUE, FALSE, <<"si">>),
   VendorChunk(TRUE, FALSE, <<" ">>)}

\* the completion streams of the vendor
VendorStreams == UNION {[1..n -> VendorChunks] : n \in 0..MaxChunks}

AdapterClasses == {"DeepSeekModel", "VolcEngineModel"}

\* the condition under which the loop of conversation_stream yields the
\* chunk's content: DeepSeekModel tests "is not None", VolcEngineModel tests
\* the content's truth value, which an empty string does not have
Yields(class, chunk) ==
  /\ chunk.has_choices
  /\ IF class = "DeepSeekModel"
       THEN ~chunk.is_null
       ELSE ~chunk.is_null /\ chunk.content # EMPTY

\* conversation_stream(messages) up to the vendor's stream being open
AdapterStreamOpen(class, chunks) ==
  /\ adapter_op = "none"
  /\ adapter_op' = "conversation_stream"
  /\ adapter_class' = class
  /\ vendor_chunks' = chunks
  /\ consumed' = <<>>
  /\ yielded' = <<>>
  /\ UNCHANGED <<completion, adapter_return, service_vars, client_vars, startup_vars>>

\* one iteration of the loop over the vendor's stream
AdapterStreamChunk ==
  /\ adapter_op = "conversation_stream"
  /\ vendor_chunks # <<>>
  /\ LET chunk == Head(vendor_chunks)
     IN /\ vendor_chunks' = Tail(vendor_chunks)
        /\ consumed' = Append(consumed, chunk)
        /\ yielded' = IF Yields(adapter_class, chunk)
                        THEN Append(yielded, chunk.content)
                        ELSE yielded
  /\ UNCHANGED <<completion, adapter_op, adapter_return, adapter_class,
                 service_vars, client_vars, startup_vars>>

\* the vendor's stream ends and the generator returns
AdapterStreamEnd ==
  /\ adapter_op = "conversation_stream"
  /\ vendor_chunks = <<>>
  /\ adapter_op' = "stream_done"
  /\ adapter_return' = Returned(EMPTY)
  /\ UNCHANGED <<completion, adapter_stream_vars, service_vars, client_vars, startup_vars>>

\* the vendor's stream raises: the exception is wrapped and raised again
AdapterStreamRaise ==
  /\ adapter_op = "conversation_stream"
  /\ adapter_op' = "stream_done"
  /\ adapter_return' = Raised
  /\ UNCHANGED <<completion, adapter_stream_vars, service_vars, client_vars, startup_vars>>

NextAdapterStream ==
  \/ \E class \in AdapterClasses, chunks \in VendorStreams : AdapterStreamOpen(class, chunks)
  \/ AdapterStreamChunk
  \/ AdapterStreamEnd
  \/ AdapterStreamRaise

\* one call of an adapter's conversation_stream, over every vendor stream
SpecAdapterStream == Init /\ [][NextAdapterStream]_vars

\* ------------------------------------------------------------ definitions
Last(s) == s[Len(s)]

\* the loop of conversation_stream run over the fragments fs from the start
RECURSIVE Replay(_, _)
Replay(fs, show) ==
  IF fs = <<>>
    THEN [full |-> EMPTY, state |-> InitState, out |-> <<>>]
    ELSE LET before == Replay(Take(fs, Len(fs) - 1), show)
             chunk  == Last(fs)
             step   == Classify(before.full \o chunk, before.state, show)
         IN IF chunk = EMPTY
              THEN before
              ELSE [full  |-> before.full \o chunk,
                    state |-> step.state,
                    out   |-> before.out \o step.emit]

\* every delta of a stream that delivers fs and then ends
StreamOutput(fs, show) ==
  LET r == Replay(fs, show) IN r.out \o FinalDeltas(r.full, r.state, show)

\* one character per fragment
CharChunks(text) == [i \in 1..Len(text) |-> <<text[i]>>]

\* the whole text in one fragment
SingleChunk(text) == IF text = EMPTY THEN <<>> ELSE <<text>>

\* the reasoning marker occurs, and the answer marker occurs after it
MarkersInOrder(text) == Contains(text, THINK) /\ Contains(After(text, THINK), ANSWER)

\* the text between the first reasoning marker and the answer marker after it
BetweenMarkers(text) == Before(After(text, THINK), ANSWER)

\* the text after that answer marker
AfterMarkers(text) == After(After(text, THINK), ANSWER)

\* a conversation_stream request whose vendor stream ended normally
StreamEnded == pc = "done" /\ op = "conversation_stream" /\ stream_status = "ended"

\* reasoning and response of a delta
Content(d) == <<d.reasoning, d.response>>

\* --------------------------------------------------------------- MCPClient
\* what the user types
Messages == {<<"si">>, <<" ">>}

StreamApis == {"conversation_stream", "conversation_stream_async"}

\* vendor outputs behind the responses the client receives
ClientTexts == ServiceTexts \cup {EMPTY}

\* the event sequences a 200 response of /conversation_stream can carry: the
\* deltas of a stream that ended, or those of a stream whose adapter raised
ServerEvents ==
  LET chunkings == {CharChunks(t) : t \in ClientTexts} \cup {SingleChunk(t) : t \in ClientTexts}
  IN [show \in BOOLEAN |->
        {StreamOutput(fs, show) : fs \in chunkings}
          \cup UNION {{Replay(Take(fs, n), show).out \o <<ErrorDelta>> : n \in 0..Len(fs)} :
                        fs \in chunkings}]

\* the "response" values a 200 response of /conversation can carry
ServerResponses ==
  [show \in BOOLEAN |-> {ConversationReturn(t, show).response : t \in ClientTexts}]

\* a status event of the client's generators
StatusEvent(status) == [type |-> "status", status |-> status]

\* an error event the client makes up itself: "http" for a status other than
\* 200, "request" for a failed or broken connection, "parse" for a payload
\* json.loads rejects, "unknown" for any other exception
SyntheticError(kind) ==
  [type |-> "error", reasoning |-> EMPTY, response |-> EMPTY, synthetic |-> kind]

\* the lines the response's line iterator gives for the frames of the events:
\* the data line and the blank line of each frame
ServerLines(events) ==
  Flatten([i \in 1..Len(events) |-> <<DataLine(events[i]), EMPTY>>])

\* a byte that is not UTF-8
BadByte == "0xff"

\* line.decode('utf-8') succeeds
Decodable(line) == \A i \in 1..Len(line) : line[i] # BadByte

Digits == {"0", "1", "2", "3", "4", "5", "6", "7", "8", "9"}

NotJson == [ok |-> FALSE, value |-> EMPTY, rest |-> EMPTY]

\* the characters of a JSON string up to its closing quote, unescaped
RECURSIVE JsonChars(_, _)
JsonChars(text, acc) ==
  IF text = <<>>
    THEN NotJson
    ELSE LET c == Head(text)
         IN IF c = "\""
              THEN [ok |-> TRUE, value |-> acc, rest |-> Tail(text)]
              ELSE IF c = "\\"
                THEN IF Len(text) < 2
                       THEN NotJson
                       ELSE LET e == text[2]
                            IN IF e = "n"
                                 THEN JsonChars(Drop(text, 3), Append(acc, "\n"))
                                 ELSE IF e \in {"\"", "\\"}
                                   THEN JsonChars(Drop(text, 3), Append(acc, e))
                                   ELSE IF e = "u" /\ Len(text) >= 6
                                             /\ \E k \in DOMAIN CodePoint :
                                                  CodePoint[k] = SubSeq(text, 3, 6)
                                     THEN JsonChars(Drop(text, 7),
                                            Append(acc, CHOOSE k \in DOMAIN CodePoint :
                                                          CodePoint[k] = SubSeq(text, 3, 6)))
                                     ELSE NotJson
                ELSE IF c = "\n"
                  THEN NotJson
                  ELSE JsonChars(Tail(text), Append(acc, c))

\* a JSON string at the head of text
JsonStringAt(text) ==
  IF text # <<>> /\ Head(text) = "\"" THEN JsonChars(Tail(text), <<>>) ELSE NotJson

\* json.loads(data_str) on the documents the stream can carry: an error
\* object, a delta object, a number; anything else raises JSONDecodeError
JsonLoads(text) ==
  IF Len(text) >= 3 /\ Take(text, 3) = <<"{", "\"error\"", ": ">>
    THEN LET e == JsonStringAt(Drop(text, 4))
         IN IF e.ok /\ e.rest = <<"}">>
              THEN [ok |-> TRUE, value |-> ErrorDelta]
              ELSE [ok |-> FALSE, value |-> ErrorDelta]
    ELSE IF Len(text) >= 3 /\ Take(text, 3) = <<"{", "\"reasoning\"", ": ">>
      THEN LET r == JsonStringAt(Drop(text, 4))
           IN IF r.ok /\ Len(r.rest) >= 3
                   /\ Take(r.rest, 3) = <<", ", "\"response\"", ": ">>
                THEN LET a == JsonStringAt(Drop(r.rest, 4))
                     IN IF a.ok /\ a.rest = <<"}">>
                          THEN [ok |-> TRUE, value |-> Delta(r.value, a.value)]
                          ELSE [ok |-> FALSE, value |-> ErrorDelta]
                ELSE [ok |-> FALSE, value |-> ErrorDelta]
      ELSE IF text # <<>> /\ \A i \in 1..Len(text) : text[i] \in Digits
        THEN [ok |-> TRUE,
              value |-> [type |-> "number", reasoning |-> EMPTY, response |-> EMPTY]]
        ELSE [ok |-> FALSE, value |-> ErrorDelta]

\* line.startswith('data: ')
IsDataLine(line) == line # <<>> /\ Head(line) = "data: "

\* line[6:]
Payload(line) == Tail(line)

\* the lines behind the blank ones at the head of w
RECURSIVE SkipBlank(_)
SkipBlank(w) == IF w # <<>> /\ Head(w) = EMPTY THEN SkipBlank(Tail(w)) ELSE w

\* one iteration of the loop over the response's lines, for a line that is
\* not blank: the events it yields, the value it gives final_response (none
\* or one), and whether an exception ends the loop. The asynchronous reader
\* keeps the line's terminator, so an empty payload reaches json.loads there;
\* an undecodable line and a document that is no object raise outside the
\* inner try
ReadLine(api, line) ==
  IF ~Decodable(line)
    THEN [events |-> <<SyntheticError("unknown")>>, responses |-> <<>>, ends |-> TRUE]
    ELSE IF ~IsDataLine(line) \/ (api = "conversation_stream" /\ Payload(line) = EMPTY)
      THEN [events |-> <<>>, responses |-> <<>>, ends |-> FALSE]
      ELSE LET parsed == JsonLoads(Payload(line))
               chunk_data == parsed.value
           IN IF ~parsed.ok
                THEN [events |-> <<SyntheticError("parse")>>, responses |-> <<>>, ends |-> FALSE]
                ELSE IF chunk_data.type = "number"
                  THEN [events |-> <<chunk_data, SyntheticError("unknown")>>,
                        responses |-> <<>>, ends |-> TRUE]
                  ELSE [events |-> <<chunk_data>>,
                        responses |->
                          IF chunk_data.type = "delta"
                               /\ (api = "conversation_stream" \/ chunk_data.response # EMPTY)
                            THEN <<chunk_data.response>>
                            ELSE <<>>,
                        ends |-> FALSE]

\* ClientStreamCall with the request sent again after a failure
ClientStreamCallRetried(api, message, status_ok, lines) ==
  /\ client_pc # "streaming"
  /\ turns < MaxTurns
  /\ turns' = turns + 1
  /\ client_api' = api
  /\ turn_base' = conversation_history
  /\ final_response' = EMPTY
  /\ lines_read' = <<>>
  /\ IF status_ok
       THEN /\ client_pc' = "streaming"
            /\ conversation_history' = Append(conversation_history, Msg("user", message))
            /\ posts' = 1
            /\ posted' = Append(conversation_history, Msg("user", message))
            /\ wire' = lines
            /\ observed' = <<>>
            /\ stream_events' = <<StatusEvent("connected")>>
       ELSE /\ client_pc' = "failed"
            /\ conversation_history' =
                 conversation_history \o <<Msg("user", message), Msg("user", message)>>
            /\ posts' = 2
            /\ posted' = conversation_history \o <<Msg("user", message), Msg("user", message)>>
            /\ wire' = <<>>
            /\ observed' = <<SyntheticError("http")>>
            /\ stream_events' = <<SyntheticError("http")>>
  /\ UNCHANGED <<service_vars, startup_vars, adapter_vars>>

\* conversation_stream and conversation_stream_async up to the first line: the
\* user message is recorded and one request is sent; the backoff decorator
\* wraps a generator function, whose call raises nothing, so it never calls
\* again
ClientStreamCall(api, message, status_ok, lines) ==
  /\ client_pc # "streaming"
  /\ turns < MaxTurns
  /\ turns' = turns + 1
  /\ client_api' = api
  /\ turn_base' = conversation_history
  /\ conversation_history' = Append(conversation_history, Msg("user", message))
  /\ posts' = 1
  /\ posted' = Append(conversation_history, Msg("user", message))
  /\ final_response' = EMPTY
  /\ lines_read' = <<>>
  /\ IF status_ok
       THEN /\ client_pc' = "streaming"
            /\ wire' = lines
            /\ observed' = <<>>
            /\ stream_events' = <<StatusEvent("connected")>>
       ELSE /\ client_pc' = "failed"
            /\ wire' = <<>>
            /\ observed' = <<SyntheticError("http")>>
            /\ stream_events' = <<SyntheticError("http")>>
  /\ UNCHANGED <<service_vars, startup_vars, adapter_vars>>

\* ClientStreamChunk appending an assistant message for every delta that has
\* a non-empty response
ClientStreamChunkAppendEach ==
  /\ client_pc = "streaming"
  /\ SkipBlank(wire) # <<>>
  /\ LET rest == SkipBlank(wire)
         read == ReadLine(client_api, Head(rest))
     IN /\ observed' = observed \o read.events
        /\ stream_events' = stream_events \o read.events
        /\ final_response' =
             IF read.responses # <<>> THEN read.responses[1] ELSE final_response
        /\ conversation_history' =
             IF read.responses # <<>> /\ read.responses[1] # EMPTY
               THEN Append(conversation_history, Msg("assistant", read.responses[1]))
               ELSE conversation_history
        /\ lines_read' = lines_read \o SubSeq(wire, 1, Len(wire) - Len(rest) + 1)
        /\ wire' = IF read.ends THEN <<>> ELSE Tail(rest)
        /\ client_pc' = IF read.ends THEN "failed" ELSE client_pc
  /\ UNCHANGED <<service_vars, startup_vars, adapter_vars, client_api, posts, posted, turn_base, turns>>

\* the loop's iterations up to and over the next line that is not blank:
\* decode, parse, yield, remember the response
ClientStreamChunk ==
  /\ client_pc = "streaming"
  /\ SkipBlank(wire) # <<>>
  /\ LET rest == SkipBlank(wire)
         read == ReadLine(client_api, Head(rest))
     IN /\ observed' = observed \o read.events
        /\ stream_events' = stream_events \o read.events
        /\ final_response' =
             IF read.responses # <<>> THEN read.responses[1] ELSE final_response
        /\ lines_read' = lines_read \o SubSeq(wire, 1, Len(wire) - Len(rest) + 1)
        /\ wire' = IF read.ends THEN <<>> ELSE Tail(rest)
        /\ client_pc' = IF read.ends THEN "failed" ELSE client_pc
  /\ UNCHANGED <<service_vars, startup_vars, adapter_vars, conversation_history, client_api, posts, posted,
                 turn_base, turns>>

\* ClientStreamComplete recording nothing when the last event was an error
ClientStreamCompleteUnlessError ==
  /\ client_pc = "streaming"
  /\ SkipBlank(wire) = <<>>
  /\ conversation_history' =
       IF final_response # EMPTY /\ (observed = <<>> \/ Last(observed).type # "error")
         THEN Append(conversation_history, Msg("assistant", final_response))
         ELSE conversation_history
  /\ client_pc' = "completed"
  /\ stream_events' = Append(stream_events, StatusEvent("completed"))
  /\ lines_read' = lines_read \o wire
  /\ wire' = <<>>
  /\ UNCHANGED <<service_vars, startup_vars, adapter_vars, client_api, posts, posted, final_response,
                 observed, turn_base, turns>>

\* the response ended: record the assistant's turn, yield "completed"
ClientStreamComplete ==
  /\ client_pc = "streaming"
  /\ SkipBlank(wire) = <<>>
  /\ conversation_history' =
       IF final_response # EMPTY
         THEN Append(conversation_history, Msg("assistant", final_response))
         ELSE conversation_history
  /\ client_pc' = "completed"
  /\ stream_events' = Append(stream_events, StatusEvent("completed"))
  /\ lines_read' = lines_read \o wire
  /\ wire' = <<>>
  /\ UNCHANGED <<service_vars, startup_vars, adapter_vars, client_api, posts, posted, final_response,
                 observed, turn_base, turns>>

\* ClientStreamDrop with the loop left as if the response had ended
ClientStreamDropCompletes ==
  /\ client_pc = "streaming"
  /\ wire # <<>>
  /\ observed' = Append(observed, SyntheticError("request"))
  /\ stream_events' = stream_events \o <<SyntheticError("request"), StatusEvent("completed")>>
  /\ wire' = <<>>
  /\ conversation_history' =
       IF final_response # EMPTY
         THEN Append(conversation_history, Msg("assistant", final_response))
         ELSE conversation_history
  /\ client_pc' = "completed"
  /\ UNCHANGED <<service_vars, startup_vars, adapter_vars, client_api, lines_read, posts, posted,
                 final_response, turn_base, turns>>

\* the connection is lost while lines are read: the line iterator raises, the
\* outer except yields one error event, nothing is recorded
ClientStreamDrop ==
  /\ client_pc = "streaming"
  /\ wire # <<>>
  /\ observed' = Append(observed, SyntheticError("request"))
  /\ stream_events' = Append(stream_events, SyntheticError("request"))
  /\ wire' = <<>>
  /\ client_pc' = "failed"
  /\ UNCHANGED <<service_vars, startup_vars, adapter_vars, conversation_history, client_api,
                 lines_read, posts, posted, final_response, turn_base, turns>>

\* conversation and conversation_async
ClientConversation(api, message, ok, response) ==
  /\ client_pc # "streaming"
  /\ turns < MaxTurns
  /\ turns' = turns + 1
  /\ client_api' = api
  /\ turn_base' = conversation_history
  /\ conversation_history' =
       IF ok
         THEN conversation_history \o <<Msg("user", message), Msg("assistant", response)>>
         ELSE Append(conversation_history, Msg("user", message))
  /\ client_pc' = IF ok THEN "completed" ELSE "failed"
  /\ wire' = <<>>
  /\ lines_read' = <<>>
  /\ posts' = 1
  /\ posted' = Append(conversation_history, Msg("user", message))
  /\ final_response' = EMPTY
  /\ observed' = <<>>
  /\ stream_events' = <<>>
  /\ UNCHANGED <<service_vars, startup_vars, adapter_vars>>

\* the terminal client leaves its loop at an error chunk: the generator is
\* abandoned before it records anything
UiBreak ==
  /\ client_pc = "streaming"
  /\ client_api = "conversation_stream"
  /\ observed # <<>>
  /\ Last(observed).type = "error"
  /\ client_pc' = "abandoned"
  /\ wire' = <<>>
  /\ UNCHANGED <<service_vars, startup_vars, adapter_vars, conversation_history, client_api,
                 lines_read, posts, posted, final_response, observed, stream_events, turn_base, turns>>

\* the terminal client's display raised inside the loop: it falls back to
\* client.conversation with the same message
UiFallback(ok, response) ==
  /\ client_pc = "streaming"
  /\ client_api = "conversation_stream"
  /\ LET message == conversation_history[Len(turn_base) + 1].content
     IN /\ conversation_history' =
             IF ok
               THEN conversation_history \o <<Msg("user", message), Msg("assistant", response)>>
               ELSE Append(conversation_history, Msg("user", message))
        /\ posted' = Append(conversation_history, Msg("user", message))
  /\ client_api' = "fallback"
  /\ client_pc' = IF ok THEN "completed" ELSE "failed"
  /\ wire' = <<>>
  /\ posts' = 1
  /\ UNCHANGED <<service_vars, startup_vars, adapter_vars, lines_read, final_response, observed, stream_events,
                 turn_base, turns>>

\* the terminal client's "switch" command
UiSwitch ==
  /\ client_pc # "streaming"
  /\ client_api # "switch"
  /\ conversation_history' = <<>>
  /\ turn_base' = <<>>
  /\ client_api' = "switch"
  /\ client_pc' = "idle"
  /\ wire' = <<>>
  /\ lines_read' = <<>>
  /\ posts' = 0
  /\ posted' = <<>>
  /\ final_response' = EMPTY
  /\ observed' = <<>>
  /\ stream_events' = <<>>
  /\ UNCHANGED <<service_vars, startup_vars, adapter_vars, turns>>

NextClient ==
  \/ /\ client_pc # "streaming"
     /\ \E show \in BOOLEAN, status_ok \in BOOLEAN :
          \E events \in (IF status_ok THEN ServerEvents[show] ELSE {<<>>}) :
            \E api \in StreamApis, message \in Messages :
              ClientStreamCall(api, message, status_ok, ServerLines(events))
  \/ ClientStreamChunk
  \/ ClientStreamComplete
  \/ ClientStreamDrop
  \/ /\ client_pc # "streaming"
     /\ \E show \in BOOLEAN : \E response \in ServerResponses[show] :
          \E api \in {"conversation", "conversation_async"}, message \in Messages,
               ok \in BOOLEAN :
            ClientConversation(api, message, ok, response)
  \/ UiBreak
  \/ /\ client_pc = "streaming"
     /\ \E show \in BOOLEAN : \E response \in ServerResponses[show] :
          \E ok \in BOOLEAN : UiFallback(ok, response)
  \/ UiSwitch

\* client turns against a service
SpecClient == Init /\ [][NextClient]_vars

\* the lines a response can carry when the connection is not trusted: data
\* lines of the service, a cut JSON document, an undecodable payload, an empty
\* payload, a number, a comment line and a blank line
LineAlphabet ==
  {DataLine(Delta(EMPTY, <<"si">>)), DataLine(ErrorDelta), <<"data: ", "{">>,
   <<"data: ", BadByte>>, <<"data: ">>, <<"data: ", "4", "2">>, <<":">>, EMPTY}

WireLines == UNION {[1..n -> LineAlphabet] : n \in 0..MaxLines}

NextWire ==
  \/ /\ client_pc = "idle"
     /\ \E ok \in BOOLEAN : ClientConversation("conversation", <<"si">>, ok, <<"da">>)
  \/ /\ client_pc # "streaming"
     /\ client_api \notin StreamApis
     /\ \E status_ok \in BOOLEAN :
          \E lines \in (IF status_ok THEN WireLines ELSE {<<>>}) :
            \E api \in StreamApis : ClientStreamCall(api, <<"si">>, status_ok, lines)
  \/ ClientStreamChunk
  \/ ClientStreamComplete
  \/ ClientStreamDrop

\* one streaming client turn over every response of up to MaxLines lines, on
\* a new client or behind one turn that did not stream
SpecWire == Init /\ [][NextWire]_vars

\* ----------------------------------------------------------------- startup
\* the four short names main.startup_event knows, and one it does not
ConfigNames == {"dsr1", "dsv3", "vdsr1", "vdsv3", "other"}

\* the two variables that override the configured keys
EnvNames == {"DEEPSEEK_API_KEY", "ARK_API_KEY"}

\* the configurations: a mapping, so no short name occurs twice
Configs ==
  {c \in UNION {[1..n -> [name : ConfigNames, api_key : BOOLEAN]] : n \in 0..MaxEntries} :
     \A i, j \in DOMAIN c : i # j => c[i].name # c[j].name}

\* the adapter class startup_event chooses for a short name
AdapterClass(name) ==
  IF name \in {"dsr1", "dsv3"} THEN "DeepSeekModel"
  ELSE IF name \in {"vdsr1", "vdsv3"} THEN "VolcEngineModel"
  ELSE "none"

\* the variable an adapter class reads its key from
ApiKeyEnv(class) == IF class = "DeepSeekModel" THEN "DEEPSEEK_API_KEY" ELSE "ARK_API_KEY"

\* the constructor returns: the key comes from the environment or from the
\* entry, and _get_config raises ValueError when the entry has none
Constructs(entry, env) == ApiKeyEnv(AdapterClass(entry.name)) \in env \/ entry.api_key

\* the loop of startup_event from entry i on: a constructor that raises ends it
RECURSIVE RegisterFrom(_, _, _, _)
RegisterFrom(cfg, env, i, registry) ==
  IF i > Len(cfg) THEN [models |-> registry, raised |-> FALSE]
  ELSE LET name == cfg[i].name
           class == AdapterClass(name)
       IN IF class = "none" THEN RegisterFrom(cfg, env, i + 1, registry)
          ELSE IF ~Constructs(cfg[i], env) THEN [models |-> registry, raised |-> TRUE]
          ELSE RegisterFrom(cfg, env, i + 1,
                            [n \in DOMAIN registry \cup {name} |->
                               IF n = name THEN class ELSE registry[n]])

\* the service before startup_event has run, for any configuration
InitStartup ==
  /\ models = << >>
  /\ config \in Configs
  /\ environ \in SUBSET EnvNames
  /\ startup_pc = "loading"
  /\ request_stats = InitStats
  /\ pc = "idle"
  /\ op = "none"
  /\ model_name = "none"
  /\ show_reasoning = FALSE
  /\ vendor = EMPTY
  /\ stream_status = "none"
  /\ fragments = <<>>
  /\ full_response = EMPTY
  /\ state = InitState
  /\ out = <<>>
  /\ sse = <<>>
  /\ adapter_calls = 0
  /\ result = NoResult
  /\ served = 0
  /\ request_messages = <<>>
  /\ vendor_calls = <<>>
  /\ pipelines = [p \in Pipelines |-> IdlePipeline]
  /\ adapter_class = "none"
  /\ vendor_chunks = <<>>
  /\ consumed = <<>>
  /\ yielded = <<>>
  /\ completion = NoCompletion
  /\ adapter_op = "none"
  /\ adapter_return = NoReturn
  /\ conversation_history = <<>>
  /\ client_pc = "idle"
  /\ client_api = "none"
  /\ wire = <<>>
  /\ lines_read = <<>>
  /\ posts = 0
  /\ posted = <<>>
  /\ final_response = EMPTY
  /\ observed = <<>>
  /\ stream_events = <<>>
  /\ turn_base = <<>>
  /\ turns = 0

\* main.startup_event: load the configuration and register its models
StartupEvent ==
  /\ startup_pc = "loading"
  /\ LET r == RegisterFrom(config, environ, 1, models)
     IN /\ models' = r.models
        /\ startup_pc' = IF r.raised THEN "failed" ELSE "started"
  /\ UNCHANGED <<request_stats, pc, op, model_name, show_reasoning, stream_vars,
                 adapter_calls, result, served, message_vars, pipelines,
                 adapter_vars, client_vars, config, environ>>

\* startup, then one request to a short name of the configuration
NextStartup ==
  \/ StartupEvent
  \/ /\ startup_pc = "started"
     /\ \E m \in ConfigNames : Generate(m, <<"si">>, TRUE, 1)

SpecStartup == InitStartup /\ [][NextStartup]_vars

\* ------------------------------------------------------------------ claims

\* C1: for a text with the reasoning marker followed later by the answer
\* marker, the final delta is the same whatever the chunking: the one of the
\* run equals those of one-character-per-fragment and single-fragment delivery.
C1_ChunkingInvariance ==
  (StreamEnded /\ MarkersInOrder(full_response)) =>
    /\ Content(Last(out)) =
         Content(Last(StreamOutput(CharChunks(full_response), show_reasoning)))
    /\ Content(Last(out)) =
         Content(Last(StreamOutput(SingleChunk(full_response), show_reasoning)))

\* C2: with show_reasoning, for a text with the reasoning marker followed later
\* by the answer marker, the final delta's reasoning is the trimmed text between
\* the markers and its response the trimmed text after the answer marker.
C2_FinalDeltaSplitsAtMarkers ==
  (StreamEnded /\ show_reasoning /\ MarkersInOrder(full_response)) =>
    /\ Last(out).reasoning = Strip(BetweenMarkers(full_response))
    /\ Last(out).response = Strip(AfterMarkers(full_response))

\* C3: when the concatenation of the fragments contains neither marker, no
\* delta is emitted before the stream ends and exactly one, the terminal one,
\* after it: empty reasoning, response equal to the whole concatenation.
C3_NoMarkerSingleDelta ==
  (/\ op = "conversation_stream"
   /\ stream_status \in {"open", "ended"}
   /\ ~Contains(Flatten(fragments), THINK)
   /\ ~Contains(Flatten(fragments), ANSWER)) =>
    IF stream_status = "open"
      THEN out = <<>>
      ELSE out = <<Delta(EMPTY, Flatten(fragments))>>

C3_Witness ==
  /\ StreamEnded
  /\ Len(fragments) >= 2
  /\ Contains(Flatten(fragments), <<"si">>)
  /\ Contains(Flatten(fragments), <<" ">>)
  /\ ~Contains(Flatten(fragments), THINK)
  /\ ~Contains(Flatten(fragments), ANSWER)
  /\ show_reasoning

\* C4: the response of the final delta does not depend on show_reasoning: it
\* equals the final response of the same fragments served with the other value.
C4_SuppressionKeepsResponse ==
  StreamEnded =>
    Last(out).response = Last(StreamOutput(fragments, ~show_reasoning)).response

\* C5: with show_reasoning off, every emitted delta that has a reasoning field
\* has an empty reasoning.
C5_SuppressedReasoningEmpty ==
  (op = "conversation_stream" /\ ~show_reasoning) =>
    \A i \in 1..Len(out) : out[i].type = "delta" => out[i].reasoning = EMPTY

C5_Witness ==
  /\ StreamEnded
  /\ ~show_reasoning
  /\ state.phase = "response"
  /\ state.reasoning # EMPTY
  /\ Len(out) >= 2

\* C6: with show_reasoning, once a delta with a non-empty response was emitted,
\* every later delta carries the reasoning captured at the transition from
\* reasoning to response (state.reasoning while in phase response).
C6_ReasoningFrozen ==
  (op = "conversation_stream" /\ show_reasoning /\ state.phase = "response") =>
    \A i, j \in 1..Len(out) :
      (i < j /\ out[i].type = "delta" /\ out[i].response # EMPTY /\ out[j].type = "delta")
        => out[j].reasoning = state.reasoning

\* C7: when the stream ends in phase response, the terminal delta repeats the
\* reasoning and the response of the delta emitted just before it.
C7_TerminalIdempotent ==
  (StreamEnded /\ state.phase = "response") =>
    /\ Len(out) >= 2
    /\ Content(out[Len(out)]) = Content(out[Len(out) - 1])

\* C8: when the adapter raises, exactly one error delta is appended to the
\* deltas already emitted and the request is over; the error delta is the only
\* one and the last, and nothing is emitted after it.
C8_ErrorDeltaIsLast ==
  [][/\ (stream_status = "open" /\ stream_status' = "raised") =>
          /\ out' = Append(out, ErrorDelta)
          /\ pc' = "done"
          /\ \A i \in 1..Len(out) : out[i].type = "delta"
     /\ (stream_status = "raised" /\ stream_status' = "raised") => out' = out
     /\ (\E i \in 1..Len(out') : out'[i].type = "error") => stream_status' = "raised"]_vars

C8_Witness ==
  /\ op = "conversation_stream"
  /\ stream_status = "raised"
  /\ state.phase = "reasoning"
  /\ Len(out) = 2
  /\ out[1].type = "delta"

\* C9: a request naming an unregistered model fails with the not-found error
\* before any adapter method is invoked and leaves request_stats unchanged.
C9_UnknownModelRejected ==
  [][(pc = "idle" /\ pc' # "idle" /\ model_name' \in ModelNames \ DOMAIN models) =>
       /\ pc' = "done"
       /\ result' = Uncaught("ValueError")
       /\ adapter_calls' = 0
       /\ out' = <<>>
       /\ request_stats' = request_stats]_vars

C9_Witness ==
  /\ pc = "done"
  /\ op = "conversation_stream"
  /\ model_name \notin DOMAIN models
  /\ request_stats.total_requests > 0

\* C10: every request that fails (unknown model, adapter exception) hands the
\* transport a well-formed payload: a JSON body or an event stream, never an
\* exception that leaves the endpoint.
C10_FailuresAreStructured ==
  (pc = "done" /\ (result.error # "none" \/ stream_status = "raised")) =>
    \/ result.kind = "json" /\ result.error # "none"
    \/ result.kind = "sse" /\ out # <<>> /\ Last(out).type = "error"

\* C11: every generate, generate_all, conversation or conversation_stream
\* request that started its timed section (the adapter was invoked) and then
\* completed, with success or with an adapter error, has incremented
\* total_requests by exactly one and added its elapsed time to total_time.
C11_StatsRecordedOnCompletion ==
  [][(pc # "done" /\ pc' = "done" /\ adapter_calls' > 0) =>
       /\ request_stats'.total_requests = request_stats.total_requests + 1
       /\ request_stats'.total_time - request_stats.total_time \in Elapsed]_vars

\* C12: for the same show_reasoning and the same complete model output, the
\* non-streaming conversation returns the response and the reasoning of the
\* final delta of conversation_stream (an absent reasoning counts as empty).
C12_StreamEqualsConversation ==
  (StreamEnded /\ models[model_name] = "DeepSeekModel") =>
    /\ Last(out).response = ConversationReturn(full_response, show_reasoning).response
    /\ Last(out).reasoning = ConversationReturn(full_response, show_reasoning).reasoning

\* a is a prefix of b
IsPrefix(a, b) == Len(a) <= Len(b) /\ Take(b, Len(a)) = a

\* C17: after each consumed fragment the phase reflects the markers the
\* accumulated text contains: reasoning or response once it contains the
\* reasoning marker, response once the answer marker follows the reasoning marker.
C17_PhaseReflectsMarkers ==
  (op = "conversation_stream" /\ stream_status # "none") =>
    /\ Contains(full_response, THINK) => state.phase \in {"reasoning", "response"}
    /\ MarkersInOrder(full_response) => state.phase = "response"

\* C18: with show_reasoning, the reasoning values of the deltas of one stream
\* are prefix-monotone: each is a prefix of the next.
C18_ReasoningPrefixMonotone ==
  (op = "conversation_stream" /\ show_reasoning) =>
    \A i \in 1..(Len(out) - 1) :
      (out[i].type = "delta" /\ out[i + 1].type = "delta")
        => IsPrefix(out[i].reasoning, out[i + 1].reasoning)

\* C19: for either show_reasoning value, the response values of the deltas of
\* one stream are prefix-monotone: each is a prefix of the next.
C19_ResponsePrefixMonotone ==
  op = "conversation_stream" =>
    \A i \in 1..(Len(out) - 1) :
      (out[i].type = "delta" /\ out[i + 1].type = "delta")
        => IsPrefix(out[i].response, out[i + 1].response)

C19_Witness ==
  /\ StreamEnded
  /\ state.phase = "response"
  /\ Len(out) >= 4
  /\ Len(Last(out).response) >= 3
  /\ \E i \in 1..Len(out) : out[i].response # EMPTY /\ out[i].response # Last(out).response

\* C20: with show_reasoning, when the stream ends in phase reasoning the
\* terminal delta has its reasoning and its response both equal to all the
\* text after the first reasoning marker in the concatenated fragments.
C20_ReasoningOnlyTerminal ==
  (StreamEnded /\ show_reasoning /\ state.phase = "reasoning") =>
    Last(out) = Delta(After(Flatten(fragments), THINK), After(Flatten(fragments), THINK))

C20_Witness ==
  /\ StreamEnded
  /\ show_reasoning
  /\ state.phase = "reasoning"
  /\ Len(fragments) >= 3
  /\ Len(Last(out).response) >= 2
  /\ ~Contains(full_response, ANSWER)

\* C15: for the fragments "思考：", "我在想", "。", "回答：", "42" with
\* show_reasoning, the service emits the reasoning-only deltas "我在想" then
\* "我在想。", then exactly one delta {reasoning "我在想。", response "42"},
\* which is the last, and the final state stays at that value.
C15_ScenarioOneFinalDelta ==
  (StreamEnded /\ show_reasoning /\ fragments = ScenarioFragments) =>
    LET A == ScenarioFragments[2]
        B == ScenarioFragments[2] \o ScenarioFragments[3]
        R == ScenarioFragments[5]
    IN /\ \E i, j \in 1..Len(out) : i < j /\ out[i] = Delta(A, EMPTY) /\ out[j] = Delta(B, EMPTY)
       /\ Cardinality({i \in 1..Len(out) : out[i] = Delta(B, R)}) = 1
       /\ Last(out) = Delta(B, R)
       /\ state = [phase |-> "response", reasoning |-> B, response |-> R]

\* C15 (amended): for these fragments with show_reasoning the service emits,
\* in order, an empty delta at the reasoning marker, the reasoning-only deltas
\* "我在想" and "我在想。", a transition delta repeating {"我在想。", ""} at the
\* answer marker, and the delta {"我在想。", "42"} twice: for the fragment "42"
\* and once more as the terminal delta; the final state holds that value.
C15_ScenarioDeltas ==
  (StreamEnded /\ show_reasoning /\ fragments = ScenarioFragments) =>
    LET A == ScenarioFragments[2]
        B == ScenarioFragments[2] \o ScenarioFragments[3]
        R == ScenarioFragments[5]
    IN /\ out = <<Delta(EMPTY, EMPTY), Delta(A, EMPTY), Delta(B, EMPTY),
                  Delta(B, EMPTY), Delta(B, R), Delta(B, R)>>
       /\ state = [phase |-> "response", reasoning |-> B, response |-> R]

C15_Witness ==
  /\ StreamEnded
  /\ show_reasoning
  /\ fragments = ScenarioFragments
  /\ Len(out) = 6

\* C16: VolcEngineModel.generate and VolcEngineModel.conversation return
\* exactly the content of the first choice's message of the vendor
\* completion, unchanged, whenever the completion has a first choice.
C16_VolcReturnsFirstChoice ==
  (adapter_op \in {"generate", "conversation"} /\ ~completion.failed
     /\ completion.choices # <<>>) =>
    adapter_return = Returned(completion.choices[1])

C16_Witness ==
  /\ adapter_op = "conversation"
  /\ Len(completion.choices) = 2
  /\ completion.choices[1] # completion.choices[2]
  /\ Strip(completion.choices[1]) # completion.choices[1]
  /\ Contains(completion.choices[1], ANSWER)
  /\ adapter_return.kind = "return"

\* the deltas among the events: those that have a response field
IsDelta(d) == d.type = "delta"

\* the messages the current turn has appended
Added == SubSeq(conversation_history, Len(turn_base) + 1, Len(conversation_history))

\* C13: when a client conversation_stream call was iterated to completion, the
\* client has appended exactly one assistant message if the last delta it
\* observed has a non-empty response, with that response as content, and no
\* assistant message otherwise.
C13_AssistantFromLastDelta ==
  (client_pc = "completed" /\ client_api \in StreamApis) =>
    IF observed # <<>> /\ Last(observed).response # EMPTY
      THEN Added = <<Added[1], Msg("assistant", Last(observed).response)>>
      ELSE Len(Added) = 1

\* C13 (amended): when a client conversation_stream call was iterated to
\* completion, the client has appended exactly one assistant message if the
\* last observed delta that carries a response field (error events carry
\* none) has a non-empty response, with that response as content, and no
\* assistant message otherwise; never one message per delta.
C13_AssistantFromLastResponse ==
  (client_pc = "completed" /\ client_api \in StreamApis) =>
    LET deltas == SelectSeq(observed, IsDelta)
    IN /\ Added[1].role = "user"
       /\ IF deltas # <<>> /\ Last(deltas).response # EMPTY
            THEN Added = <<Added[1], Msg("assistant", Last(deltas).response)>>
            ELSE Len(Added) = 1

C13_Witness ==
  /\ client_pc = "completed"
  /\ client_api = "conversation_stream"
  /\ Len(SelectSeq(observed, IsDelta)) >= 3
  /\ Last(observed).type = "error"
  /\ Len(Added) = 2
  /\ Len(turn_base) >= 1

\* C14: conversation_history only grows by appending: what a turn found is
\* kept as it was, and the turn has appended exactly one user message and at
\* most one assistant message after it; only the switch command empties it.
C14_TurnAppendsOneUser ==
  /\ IsPrefix(turn_base, conversation_history)
  /\ client_api \in {"none", "switch"} => conversation_history = <<>>
  /\ client_api \notin {"none", "switch"} =>
       /\ Len(Added) \in {1, 2}
       /\ Added[1].role = "user"
       /\ Len(Added) = 2 => Added[2].role = "assistant"

\* C21: a conversation_stream over finitely many fragments terminates, and it
\* emits at most one delta per consumed fragment plus, once it is over, one
\* terminal delta (reconciliation or error): at most n+1 deltas for n fragments.
C21_BoundedAndTerminates ==
  /\ [](op = "conversation_stream" =>
          Len(out) <= Len(fragments) + (IF pc = "done" THEN 1 ELSE 0))
  /\ (pc = "streaming") ~> (pc = "done")

C21_Witness ==
  /\ StreamEnded
  /\ Len(fragments) >= 3
  /\ Len(out) = Len(fragments) + 1

\* C22: the list conversation_stream hands on carries the instruction as a system
\* message: a list with system messages keeps its length and its other messages,
\* and each system message has the instruction as content; a list without one
\* is handed on behind exactly one system message
C22_SystemMessageInjected ==
  (op = "conversation_stream" /\ model_name \in DOMAIN models) =>
    /\ Len(vendor_calls) = 1
    /\ LET input == request_messages
           handed == vendor_calls[1]
           instruction == Msg("system", SystemInstruction)
       IN IF \E i \in 1..Len(input) : input[i].role = "system"
            THEN /\ Len(handed) = Len(input)
                 /\ \A i \in 1..Len(input) :
                      handed[i] = (IF input[i].role = "system" THEN instruction ELSE input[i])
            ELSE /\ handed = <<instruction>> \o input
                 /\ Cardinality({i \in 1..Len(handed) : handed[i].role = "system"}) = 1

C22_Witness ==
  /\ op = "conversation_stream"
  /\ pc = "done"
  /\ Len(request_messages) = 2
  /\ request_messages[1].role = "user"
  /\ request_messages[2] = Msg("system", <<"hui">>)
  /\ vendor_calls = <<<<request_messages[1], Msg("system", SystemInstruction)>>>>

\* C23: conversation hands the vendor the list conversation_stream hands it for
\* the same messages, whatever show_reasoning is
C23_ConversationInjectsLikeStream ==
  (op = "conversation" /\ model_name \in DOMAIN models) =>
    vendor_calls = <<InjectSystem(request_messages)>>

\* the contents of the chunks that carry one, in order
RECURSIVE NonNullContents(_)
NonNullContents(chunks) ==
  IF chunks = <<>>
    THEN <<>>
    ELSE (IF Head(chunks).has_choices /\ ~Head(chunks).is_null
            THEN <<Head(chunks).content>> ELSE <<>>)
         \o NonNullContents(Tail(chunks))

\* C24: what an adapter's conversation_stream has yielded is the sequence of
\* the non-null contents the vendor has delivered, empty strings included, in
\* the vendor's order, for DeepSeekModel and for VolcEngineModel
C24_AdapterYieldsEveryFragment ==
  adapter_op \in {"conversation_stream", "stream_done"} =>
    yielded = NonNullContents(consumed)

\* the requests that have reached the statistics update
Updated == {p \in Pipelines : pipelines[p].pc = "done"}

\* the elapsed times of the requests in P, added up
RECURSIVE SumElapsed(_)
SumElapsed(P) ==
  IF P = {}
    THEN 0
    ELSE LET p == CHOOSE q \in P : TRUE
         IN pipelines[p].elapsed + SumElapsed(P \ {p})

\* C25: in every interleaving of concurrent requests no statistics update is
\* lost: total_requests counts the requests that reached the update, and
\* total_time is the sum of their elapsed times
C25_NoLostUpdate ==
  /\ request_stats.total_requests = Cardinality(Updated)
  /\ request_stats.total_time = SumElapsed(Updated)

C25_Witness ==
  /\ Updated = Pipelines
  /\ pipelines[1].op = "conversation_stream"
  /\ pipelines[2].op = "conversation"
  /\ pipelines[1].elapsed = 1
  /\ pipelines[2].elapsed = 2
  /\ request_stats.total_time = SumElapsed(Pipelines)

\* what a streaming request that received fs emits when it is served alone
AloneOutput(fs, show, status) ==
  LET r == Replay(fs, show)
  IN r.out \o (CASE status = "ended"  -> FinalDeltas(r.full, r.state, show)
                 [] status = "raised" -> <<ErrorDelta>>
                 [] OTHER             -> <<>>)

\* C26: with the fragments of concurrent streaming requests interleaved, each
\* request has emitted exactly the deltas it emits when served alone on its
\* own fragments
C26_RequestsIsolated ==
  \A p \in Pipelines :
    pipelines[p].op = "conversation_stream" =>
      pipelines[p].out = AloneOutput(pipelines[p].fragments, pipelines[p].show_reasoning,
                                     pipelines[p].stream_status)

C26_Witness ==
  /\ \A p \in {1, 2} :
       /\ pipelines[p].pc = "streaming"
       /\ pipelines[p].fragments # <<>>
       /\ pipelines[p].pending # <<>>
       /\ pipelines[p].out # <<>>
  /\ pipelines[1].state.phase = "reasoning"
  /\ pipelines[2].state.phase = "reasoning"
  /\ pipelines[1].state # pipelines[2].state

\* the body of the response so far: the yielded strings one after the other
Body == Flatten(sse)

\* C27: the endpoint has put exactly one SSE record on the response for each
\* delta of conversation_stream so far, in the order of the deltas: the body,
\* cut at its blank lines, is the sequence of the deltas' data lines, each
\* "data: " and the delta's JSON on one line
C27_OneRecordPerDelta ==
  op = "conversation_stream" =>
    /\ Len(sse) = Len(out)
    /\ Split(Body, <<"\n", "\n">>) = [i \in 1..Len(out) |-> DataLine(out[i])] \o <<EMPTY>>
    /\ \A i \in 1..Len(out) : ~Contains(DataLine(out[i]), <<"\n">>)

C27_Witness ==
  /\ StreamEnded
  /\ Len(out) >= 3
  /\ \E i \in 1..Len(out) : Contains(out[i].reasoning, <<"\n", "\n">>)
  /\ \E i \in 1..Len(out) : Contains(out[i].response, <<"\"">>)

\* a data line with a payload that is not a JSON document
BadJsonLine(line) ==
  /\ IsDataLine(line)
  /\ Payload(line) # EMPTY
  /\ ~(Decodable(line) /\ JsonLoads(Payload(line)).ok)

\* a data line with a payload that is one
GoodJsonLine(line) ==
  /\ IsDataLine(line)
  /\ Decodable(line)
  /\ JsonLoads(Payload(line)).ok

\* a data line that is neither broken JSON nor an object: an empty payload,
\* or a document that is no object
OtherDataLine(line) ==
  /\ IsDataLine(line)
  /\ \/ Payload(line) = EMPTY
     \/ Decodable(line) /\ JsonLoads(Payload(line)).ok
          /\ JsonLoads(Payload(line)).value.type = "number"

IsSynthetic(e) == e.type = "error" /\ "synthetic" \in DOMAIN e

\* an error event made up for a line
IsLineError(e) == IsSynthetic(e) /\ e.synthetic \in {"parse", "unknown"}

IsRequestError(e) == IsSynthetic(e) /\ e.synthetic = "request"

IsUser(m) == m.role = "user"

\* the documents of the well-formed data lines among ls, in order
RECURSIVE Documents(_)
Documents(ls) ==
  IF ls = <<>>
    THEN <<>>
    ELSE (IF GoodJsonLine(Head(ls)) THEN <<JsonLoads(Payload(Head(ls))).value>> ELSE <<>>)
         \o Documents(Tail(ls))

\* C28: a data line whose payload is not valid JSON gives exactly one made-up
\* error event and the stream goes on: the well-formed data lines read are
\* all yielded in order, and nothing but a lost connection ends the stream
C28_BadJsonOneErrorAndContinue ==
  (client_api \in StreamApis /\ \A i \in 1..Len(lines_read) : ~OtherDataLine(lines_read[i])) =>
    /\ Len(SelectSeq(observed, IsLineError)) = Len(SelectSeq(lines_read, BadJsonLine))
    /\ SelectSeq(observed, LAMBDA e : ~IsSynthetic(e)) = Documents(lines_read)
    /\ client_pc = "failed" =>
         \/ IsRequestError(Last(observed))
         \/ observed = <<SyntheticError("http")>>

\* C29: when the connection is lost while the client reads the stream, the
\* client yields exactly one made-up error event for it, the event is the
\* last one, the call does not complete and records no assistant message
C29_DropErrorIsLast ==
  (client_api \in StreamApis /\ \E i \in 1..Len(observed) : IsRequestError(observed[i])) =>
    /\ IsRequestError(Last(observed))
    /\ Len(SelectSeq(observed, IsRequestError)) = 1
    /\ client_pc = "failed"
    /\ Len(Added) = 1

C29_Witness ==
  /\ client_pc = "failed"
  /\ Len(observed) >= 3
  /\ IsRequestError(Last(observed))
  /\ final_response # EMPTY
  /\ wire = <<>>
  /\ Len(lines_read) >= 2

\* C30: a call of the client's conversation_stream sends one request and
\* records the user message once, whatever happens to the request or the
\* stream; a call that failed has an error event as its last event
C30_NoTransparentRetry ==
  client_api \in StreamApis =>
    /\ posts = 1
    /\ Len(SelectSeq(Added, IsUser)) = 1
    /\ client_pc = "failed" => (observed # <<>> /\ Last(observed).type = "error")

C30_Witness ==
  /\ client_api = "conversation_stream"
  /\ client_pc = "failed"
  /\ observed = <<SyntheticError("http")>>
  /\ posts = 1
  /\ Len(turn_base) >= 1
  /\ Added = <<Msg("user", <<"si">>)>>

\* the deltas with a reasoning or a response to display
IsOutput(e) == e.type = "delta" /\ (e.reasoning # EMPTY \/ e.response # EMPTY)

\* C31: the terminal client's fallback sends the request of the failed
\* streaming call again, with the same conversation history, only when the
\* streaming call has produced no output, and once per user input
C31_FallbackRepeatsRequestOnce ==
  client_api = "fallback" =>
    /\ posted = Append(turn_base, Added[1])
    /\ SelectSeq(observed, IsOutput) = <<>>
    /\ posts = 1

\* the entries whose adapter can be constructed
Constructible == {i \in DOMAIN config : /\ AdapterClass(config[i].name) # "none"
                                        /\ Constructs(config[i], environ)}

\* C32: after startup every configured model whose adapter can be constructed
\* is registered, wherever an entry that cannot be constructed stands in the
\* configuration
C32_OtherModelsRegistered ==
  startup_pc # "loading" => \A i \in Constructible : config[i].name \in DOMAIN models

\* the phase changes the classifier may make
ForwardPhases == {<<"init", "reasoning">>, <<"reasoning", "response">>}

\* C33: the classifier of a stream starts in phase init, and each step of the
\* stream leaves the phase as it is or moves it one phase forward, from init
\* to reasoning or from reasoning to response, never back and never from init
\* to response
C33_PhaseMovesForward ==
  [][/\ (pc # "streaming" /\ pc' = "streaming") => state'.phase = "init"
     /\ (pc = "streaming" /\ state'.phase # state.phase) =>
          /\ <<state.phase, state'.phase>> \in ForwardPhases
          /\ Len(fragments') = Len(fragments) + 1]_vars

\* a stream whose classifier has made both phase changes
C33_Witness ==
  /\ pc = "streaming"
  /\ state.phase = "response"
  /\ Len(fragments) >= 2
  /\ ~Contains(fragments[1], ANSWER)

\* C34: when the concatenation of the fragments contains the answer marker and
\* never the reasoning marker, the classifier stays in phase init, no delta is
\* emitted before the stream ends, and the terminal delta is the only one:
\* empty reasoning, response the whole concatenation with the marker inside.
C34_AnswerMarkerAloneIsText ==
  (/\ op = "conversation_stream"
   /\ stream_status \in {"open", "ended"}
   /\ Contains(Flatten(fragments), ANSWER)
   /\ ~Contains(Flatten(fragments), THINK)) =>
    /\ state.phase = "init"
    /\ IF stream_status = "open"
         THEN out = <<>>
         ELSE /\ out = <<Delta(EMPTY, Flatten(fragments))>>
              /\ Contains(Last(out).response, ANSWER)

C34_Witness ==
  /\ StreamEnded
  /\ Len(fragments) >= 2
  /\ Contains(Flatten(fragments), ANSWER \o <<"si">>)
  /\ ~Contains(Flatten(fragments), THINK)
  /\ Len(out) = 1

\* the text behind the first reasoning marker
BehindThink(text) == Drop(text, Find(text, THINK) + Len(THINK))

\* C35: when the text accumulated from the fragments contains the reasoning marker
\* and no answer marker stands before it, every reasoning and every response
\* emitted is taken from the text behind the first reasoning marker: the text
\* before the marker appears in no delta.
C35_PreambleDiscarded ==
  (/\ op = "conversation_stream"
   /\ out # <<>>
   /\ Contains(full_response, THINK)
   /\ ~Contains(Take(full_response, Find(full_response, THINK) - 1), ANSWER)) =>
    LET behind == BehindThink(full_response)
    IN \A i \in DOMAIN out :
         /\ Contains(behind, out[i].reasoning)
         /\ Contains(behind, out[i].response)

\* a finished stream with a preamble and a reasoning shown while it grew
C35_Witness ==
  /\ StreamEnded
  /\ show_reasoning
  /\ Flatten(fragments) = <<" ">> \o THINK \o <<"si">>
  /\ Len(out) >= 2

\* the fragments that are not the empty string
NonEmpty(fs) == SelectSeq(fs, LAMBDA f : f # EMPTY)

\* C36: empty fragments are skipped: the deltas a stream has emitted, and the
\* state of its classifier, are those of the same fragments without the empty
\* ones, so that adding or removing empty fragments changes no delta.
C36_EmptyFragmentsSkipped ==
  LET me   == pipelines[1]
      kept == NonEmpty(me.fragments)
  IN me.op = "conversation_stream" =>
       /\ me.stream_status = "open" =>
            /\ me.out = Replay(kept, me.show_reasoning).out
            /\ me.state = Replay(kept, me.show_reasoning).state
       /\ me.stream_status = "ended" => me.out = StreamOutput(kept, me.show_reasoning)

\* a finished stream with an empty fragment between the two markers
C36_Witness ==
  /\ pipelines[1].stream_status = "ended"
  /\ pipelines[1].fragments = <<THINK, EMPTY, ANSWER>>
  /\ Len(pipelines[1].out) >= 2

\* the messages of a list that are not system messages, in their order
NonSystem(messages) == SelectSeq(messages, LAMBDA m : m.role # "system")

\* C37: the injection of the system message is idempotent and keeps the
\* conversation: the list handed to the vendor is left as it is by a second
\* injection, and its messages other than system messages are those of the
\* request, with their roles and contents, in the same order.
C37_InjectionIdempotent ==
  (op = "conversation_stream" /\ model_name \in DOMAIN models) =>
    /\ Len(vendor_calls) = 1
    /\ InjectSystem(vendor_calls[1]) = vendor_calls[1]
    /\ NonSystem(vendor_calls[1]) = NonSystem(request_messages)

\* a request whose own system message was rewritten
C37_Witness ==
  /\ op = "conversation_stream"
  /\ model_name \in DOMAIN models
  /\ request_messages = <<Msg("system", <<"hui">>), Msg("assistant", <<"da">>)>>
  /\ vendor_calls # <<request_messages>>

\* an error event after which the client's generator returns: every error the
\* client makes up but the one for a payload that is no JSON
IsFatal(e) == IsSynthetic(e) /\ e.synthetic # "parse"

\* C38: a stream call that was answered with 200 yields the connected status
\* first, before any value of the server; the completed status is yielded at
\* most once and as the last event, when the call completed; a call that
\* failed, by its status or by an exception, ends with an error event and
\* yields no completed status.
C38_StatusEventsFrameStream ==
  client_api \in StreamApis =>
    /\ stream_events # <<>>
    /\ \/ stream_events[1] = StatusEvent("connected")
       \/ Len(stream_events) = 1 /\ IsFatal(stream_events[1])
    /\ \A i \in DOMAIN stream_events :
         /\ stream_events[i] = StatusEvent("connected") => i = 1
         /\ stream_events[i] = StatusEvent("completed") =>
              i = Len(stream_events) /\ client_pc = "completed"
         /\ IsFatal(stream_events[i]) => i = Len(stream_events) /\ client_pc # "completed"
    /\ client_pc = "failed" => IsFatal(Last(stream_events))

\* a completed stream with a value of the server between the two status events
C38_Witness ==
  /\ client_api \in StreamApis
  /\ client_pc = "completed"
  /\ Len(stream_events) >= 3
  /\ stream_events[2].type = "delta"
  /\ Last(stream_events) = StatusEvent("completed")

\* the current turn has appended an assistant message behind its user message
Recorded == Len(Added) = 2 /\ Added[2].role = "assistant"

\* C39: a turn of the client's conversation_stream has appended the assistant
\* message exactly when the generator was driven past the last line of the
\* response and the last delta with a response had a non-empty one, an error
\* delta behind it or not; while the stream is read, after it failed, and
\* when the consumer left it early, the user message is the last entry.
C39_AssistantIffDrivenToEnd ==
  client_api = "conversation_stream" =>
    LET deltas == SelectSeq(observed, IsDelta)
    IN /\ Added[1].role = "user"
       /\ Recorded <=> /\ client_pc = "completed"
                       /\ deltas # <<>>
                       /\ Last(deltas).response # EMPTY
       /\ ~Recorded => Len(Added) = 1

\* a completed turn whose stream ended with an error delta behind a response
C39_Witness ==
  /\ client_api = "conversation_stream"
  /\ client_pc = "completed"
  /\ Last(observed) = ErrorDelta
  /\ Recorded
  /\ Added[2].content # EMPTY

====
